---- MODULE Spec2Model ----
(***************************************************************************)
(* Selection / persistence state machine of CaptionIMG (src/CaptionIMG.py).*)
(* The Qt widgets are modelled by the part of their state the handlers     *)
(* read: the rows of the list widget, its current row, and the text of the *)
(* caption editor.  The filesystem is modelled by the caption files.       *)
(***************************************************************************)
EXTENDS Integers, Sequences, FiniteSets, TLC

VARIABLES
    file_map,            \* self.file_map: basename -> path
    list_items,          \* rows of self.list_widget (basenames), row r is list_items[r+1]
    current_row,         \* self.list_widget.currentRow(), -1 when there is none
    current_image_name,  \* self.current_image_name (NoName models None)
    current_image_path,  \* self.current_image_path (NoPath models None)
    caption_text,        \* self.caption_edit.toPlainText()
    unsaved,             \* self.unsaved
    files,               \* caption files on disk
    linesep,             \* os.linesep of the platform the program runs on
    edited,              \* history: the user edited since the last load or successful save
    synced,              \* history: the text last loaded from or saved to disk
    ev                   \* history: the event that produced this state

vars == <<file_map, list_items, current_row, current_image_name,
          current_image_path, caption_text, unsaved, files, linesep,
          edited, synced, ev>>

-----------------------------------------------------------------------------
(* Bounds and universes *)

\* Largest number of paths one file dialog returns.
MaxOpen == 2

\* Basenames are sequences of one-character strings.
P1 == [dir |-> "d1", base |-> <<"a", "2", ".", "p", "n", "g">>]
P2 == [dir |-> "d2", base |-> <<"a", "2", ".", "p", "n", "g">>]
P3 == [dir |-> "d1", base |-> <<"A", "1", "0", ".", "p", "n", "g">>]
P4 == [dir |-> "d1", base |-> <<"a", "2", ".", "j", "p", "g">>]

ImagePaths == {P1, P2, P3, P4}

\* Texts are sequences of one-character strings.
EmptyText == <<>>
Cat == <<"c", "a", "t">>

\* Texts the user can type into the caption editor.
Texts == {EmptyText, Cat}

\* os.linesep: "\n" on POSIX, "\r\n" on Windows.
LF == <<"\n">>
CRLF == <<"\r", "\n">>
LineSeps == {LF, CRLF}

NoName == <<>>
NoPath == [dir |-> "", base |-> <<>>]

\* A caption file is absent, present but unreadable, or holds a text.
NoFile == [kind |-> "none", text |-> <<>>]
BadFile == [kind |-> "bad", text |-> <<>>]
TextFile(t) == [kind |-> "text", text |-> t]

\* What the file dialog can return: distinct paths in any order, or nothing.
OpenInputs ==
    UNION { { s \in [1..k -> ImagePaths] : \A i, j \in 1..k : i # j => s[i] # s[j] }
            : k \in 0..MaxOpen }

Answers == {"save", "discard", "cancel"}
Steps == {-1, 1}

-----------------------------------------------------------------------------
(* natural_sort *)

CharCode(c) ==
    CASE c = "." -> 46
      [] c = "0" -> 48 [] c = "1" -> 49 [] c = "2" -> 50
      [] c = "A" -> 65
      [] c = "a" -> 97 [] c = "g" -> 103 [] c = "j" -> 106
      [] c = "n" -> 110 [] c = "p" -> 112 [] c = "t" -> 116 [] c = "x" -> 120

IsDigitChar(c) == c \in {"0", "1", "2"}

LowerChar(c) == IF c = "A" THEN "a" ELSE c

\* str.lower()
Lower(s) == [i \in 1..Len(s) |-> LowerChar(s[i])]

\* str.isdigit()
IsDigitStr(s) == Len(s) > 0 /\ \A i \in 1..Len(s) : IsDigitChar(s[i])

RECURSIVE IntOf(_)
\* int(text) of a run of decimal digits
IntOf(s) ==
    IF Len(s) = 0 THEN 0
    ELSE 10 * IntOf(SubSeq(s, 1, Len(s) - 1)) + (CharCode(s[Len(s)]) - CharCode("0"))

RECURSIVE ReSplitFrom(_, _, _, _)
\* re.split(r"([0-9]+)", s): the runs of s, non-digit runs at the odd
\* positions (possibly empty), digit runs at the even ones.
ReSplitFrom(s, i, run, out) ==
    LET inDigits == Len(out) % 2 = 1 IN
    IF i > Len(s)
    THEN IF inDigits THEN Append(Append(out, run), <<>>) ELSE Append(out, run)
    ELSE IF IsDigitChar(s[i]) = inDigits
         THEN ReSplitFrom(s, i + 1, Append(run, s[i]), out)
         ELSE ReSplitFrom(s, i + 1, <<s[i]>>, Append(out, run))

ReSplit(s) == ReSplitFrom(s, 1, <<>>, <<>>)

\* A variant that compares digit runs as text.
convert_NoInt(text) == [isnum |-> FALSE, num |-> 0, str |-> Lower(text)]

\* convert(text): an integer for a digit run, the lowered text otherwise
convert(text) ==
    IF IsDigitStr(text)
    THEN [isnum |-> TRUE, num |-> IntOf(text), str |-> <<>>]
    ELSE [isnum |-> FALSE, num |-> 0, str |-> Lower(text)]

\* alphanum_key(p)
alphanum_key(p) ==
    LET parts == ReSplit(p.base) IN [i \in 1..Len(parts) |-> convert(parts[i])]

RECURSIVE StrLess(_, _)
\* Python's < on strings
StrLess(a, b) ==
    IF Len(b) = 0 THEN FALSE
    ELSE IF Len(a) = 0 THEN TRUE
    ELSE IF a[1] # b[1] THEN CharCode(a[1]) < CharCode(b[1])
    ELSE StrLess(Tail(a), Tail(b))

TokenLess(x, y) == IF x.isnum THEN x.num < y.num ELSE StrLess(x.str, y.str)

RECURSIVE KeyLess(_, _)
\* Python's < on the key lists
KeyLess(k1, k2) ==
    IF Len(k2) = 0 THEN FALSE
    ELSE IF Len(k1) = 0 THEN TRUE
    ELSE IF k1[1] # k2[1] THEN TokenLess(k1[1], k2[1])
    ELSE KeyLess(Tail(k1), Tail(k2))

\* A variant that inserts p in front of the elements with an equal key.
InsertByKey_BeforeEquals(sorted, p) ==
    LET n == Cardinality({ i \in 1..Len(sorted) :
                            KeyLess(alphanum_key(sorted[i]), alphanum_key(p)) })
    IN SubSeq(sorted, 1, n) \o <<p>> \o SubSeq(sorted, n + 1, Len(sorted))

\* Insert p behind every element whose key is not greater (stable).
InsertByKey(sorted, p) ==
    LET n == Cardinality({ i \in 1..Len(sorted) :
                            ~KeyLess(alphanum_key(p), alphanum_key(sorted[i])) })
    IN SubSeq(sorted, 1, n) \o <<p>> \o SubSeq(sorted, n + 1, Len(sorted))

RECURSIVE SortedPrefix(_, _)
SortedPrefix(paths, n) ==
    IF n = 0 THEN <<>> ELSE InsertByKey(SortedPrefix(paths, n - 1), paths[n])

\* sorted(paths, key=alphanum_key)
natural_sort(paths) == SortedPrefix(paths, Len(paths))

\* The function f as an explicit table: TLC then evaluates the body once
\* per argument instead of at every application.
Table(f) == IF f = f THEN f ELSE f

\* natural_sort of every input of the file dialog.
SortedInput == Table([sel \in OpenInputs |-> natural_sort(sel)])

-----------------------------------------------------------------------------
(* Caption store *)

\* Path.with_suffix(".txt"): the part of the basename from its last dot on
\* (a dot that is neither the first nor the last character) is replaced.
with_suffix_txt(p) ==
    LET dots == { i \in 1..Len(p.base) : p.base[i] = "." }
        last == IF dots = {} THEN 0 ELSE CHOOSE i \in dots : \A j \in dots : j <= i
        stem == IF 1 < last /\ last < Len(p.base)
                THEN SubSeq(p.base, 1, last - 1) ELSE p.base
    IN [dir |-> p.dir, base |-> stem \o <<".", "t", "x", "t">>]

\* The caption file of every image path.
CaptionOf == Table([p \in ImagePaths |-> with_suffix_txt(p)])

CaptionPaths == { CaptionOf[p] : p \in ImagePaths }

RECURSIVE EncodeText(_, _)
\* What write_text puts on disk: text mode with the default newline
\* writes os.linesep for every "\n" of the text.
EncodeText(text, sep) ==
    IF Len(text) = 0 THEN <<>>
    ELSE (IF text[1] = "\n" THEN sep ELSE <<text[1]>>) \o EncodeText(Tail(text), sep)

\* A variant that reads the file as it is, without newline translation.
DecodeText_Raw(content) == content

RECURSIVE DecodeText(_)
\* What read_text returns: text mode with the default newline reads
\* "\r\n" and a lone "\r" as "\n".
DecodeText(content) ==
    IF Len(content) = 0 THEN <<>>
    ELSE IF content[1] = "\r"
         THEN IF Len(content) > 1 /\ content[2] = "\n"
              THEN <<"\n">> \o DecodeText(SubSeq(content, 3, Len(content)))
              ELSE <<"\n">> \o DecodeText(Tail(content))
         ELSE <<content[1]>> \o DecodeText(Tail(content))

\* The text _load_caption puts into the editor: the file's content, or ""
\* when the file does not exist or read_text raises.
ReadCaption(fs, path) ==
    LET f == fs[CaptionOf[path]] IN
    IF f.kind = "text" THEN DecodeText(f.text) ELSE EmptyText

\* caption_file.write_text(text): creates or overwrites the file.
WriteCaption(fs, path, text) ==
    [fs EXCEPT ![CaptionOf[path]] = TextFile(EncodeText(text, linesep))]

-----------------------------------------------------------------------------
(* The session: the fields the handlers read and write, as one record.     *)
(* prompted, wrote and loaded are history fields: whether the unsaved-      *)
(* changes question was asked, whether write_text succeeded and whether a  *)
(* caption was loaded in this event; edited and synced are the history     *)
(* variables.                                                              *)

Session ==
    [fmap |-> file_map, items |-> list_items, row |-> current_row,
     name |-> current_image_name, path |-> current_image_path,
     text |-> caption_text, unsaved |-> unsaved, files |-> files,
     prompted |-> FALSE, wrote |-> FALSE, loaded |-> FALSE,
     edited |-> edited, synced |-> synced]

\* A variant that leaves the editor's signals on and keeps the flag that
\* textChanged sets when setPlainText changes the text.
load_caption_SignalsOn(s, path) ==
    [s EXCEPT !.text = ReadCaption(s.files, path),
              !.unsaved = (ReadCaption(s.files, path) # s.text),
              !.loaded = TRUE, !.edited = FALSE,
              !.synced = ReadCaption(s.files, path)]

\* A variant that creates the caption file when there is none.
load_caption_CreatesFile(s, path) ==
    [s EXCEPT !.text = ReadCaption(s.files, path), !.unsaved = FALSE,
              !.loaded = TRUE, !.edited = FALSE,
              !.synced = ReadCaption(s.files, path),
              !.files = IF s.files[CaptionOf[path]] = NoFile
                        THEN [s.files EXCEPT ![CaptionOf[path]] = TextFile(EmptyText)]
                        ELSE s.files]

\* _load_caption(path): signals of the editor are blocked, so unsaved is
\* not set by setPlainText.
load_caption(s, path) ==
    [s EXCEPT !.text = ReadCaption(s.files, path), !.unsaved = FALSE,
              !.loaded = TRUE, !.edited = FALSE,
              !.synced = ReadCaption(s.files, path)]

\* A variant that clears unsaved before it knows that the write succeeded.
save_caption_ClearsFirst(s, writeOk) ==
    IF s.path = NoPath THEN [s |-> s, ok |-> FALSE]
    ELSE IF writeOk
         THEN [s |-> [s EXCEPT !.files = WriteCaption(s.files, s.path, s.text),
                                !.unsaved = FALSE, !.wrote = TRUE,
                                !.edited = FALSE, !.synced = s.text],
               ok |-> TRUE]
         ELSE [s |-> [s EXCEPT !.unsaved = FALSE], ok |-> FALSE]

\* A variant that reports success when there is no image to save for.
save_caption_NoImageCheck(s, writeOk) ==
    IF s.path = NoPath THEN [s |-> [s EXCEPT !.unsaved = FALSE], ok |-> TRUE]
    ELSE IF writeOk
         THEN [s |-> [s EXCEPT !.files = WriteCaption(s.files, s.path, s.text),
                                !.unsaved = FALSE, !.wrote = TRUE,
                                !.edited = FALSE, !.synced = s.text],
               ok |-> TRUE]
         ELSE [s |-> s, ok |-> FALSE]

\* save_caption(): [s, ok] where ok is the value returned.  writeOk says
\* whether write_text succeeds.
save_caption(s, writeOk) ==
    IF s.path = NoPath THEN [s |-> s, ok |-> FALSE]
    ELSE IF writeOk
         THEN [s |-> [s EXCEPT !.files = WriteCaption(s.files, s.path, s.text),
                                !.unsaved = FALSE, !.wrote = TRUE,
                                !.edited = FALSE, !.synced = s.text],
               ok |-> TRUE]
         ELSE [s |-> s, ok |-> FALSE]

\* _clear_image_and_caption(): caption_edit.clear() may emit textChanged,
\* which sets unsaved, before the last line clears it again.
clear_image_and_caption(s) ==
    [s EXCEPT !.text = EmptyText, !.name = NoName, !.path = NoPath, !.unsaved = FALSE]

\* A variant that leaves the list on the row the user picked.
RevertSelection_Forgotten(s, prev) == s

\* The row the list shows after an aborted transition (lines 151-154,
\* 159-162): setCurrentRow(prev_row) with the widget's signals blocked.
RevertSelection(s, prev) == [s EXCEPT !.row = prev]

\* A variant that loads the caption without recording the image as current.
ShowCurrent_KeepsOldImage(s) ==
    IF s.row = -1 THEN clear_image_and_caption(s)
    ELSE LET name == s.items[s.row + 1] IN
         IF name \notin DOMAIN s.fmap THEN s
         ELSE load_caption(s, s.fmap[name])

\* Lines 168-181 of _on_selection_changed: show the newly selected row.
ShowCurrent(s) ==
    IF s.row = -1 THEN clear_image_and_caption(s)
    ELSE LET name == s.items[s.row + 1] IN
         IF name \notin DOMAIN s.fmap THEN s
         ELSE load_caption([s EXCEPT !.name = name, !.path = s.fmap[name]],
                           s.fmap[name])

\* A variant that asks whenever there is a previous item.
GuardFires_IgnoresFlag(s, prev) == prev # -1

\* Whether the unsaved-changes question is asked (line 141).
GuardFires(s, prev) == prev # -1 /\ s.unsaved

\* A variant that ignores the value save_caption returned.
GuardSave_IgnoresFailure(s, prev, writeOk) ==
    ShowCurrent(save_caption(s, writeOk).s)

\* A variant that loads the new caption before it saves the old one.
GuardSave_LoadsFirst(s, prev, writeOk) ==
    LET shown == ShowCurrent(s)
        r == save_caption(s, writeOk)
    IN IF ~r.ok THEN RevertSelection(r.s, prev)
       ELSE [shown EXCEPT !.files = r.s.files, !.wrote = TRUE]

\* Lines 156-163: the answer Yes.
GuardSave(s, prev, writeOk) ==
    LET r == save_caption(s, writeOk) IN
    IF ~r.ok THEN RevertSelection(r.s, prev) ELSE ShowCurrent(r.s)

\* A variant that writes the buffer before it drops the edits.
GuardDiscard_Writes(s) ==
    ShowCurrent([s EXCEPT !.files = WriteCaption(s.files, s.path, s.text),
                          !.unsaved = FALSE])

\* Lines 164-166: the answer No.
GuardDiscard(s) == ShowCurrent([s EXCEPT !.unsaved = FALSE])

\* _on_selection_changed(current, previous).  The list's current row is
\* already the new one (s.row) when the signal is delivered; prev is the row
\* of the previous item, -1 for None.
on_selection_changed(s, prev, answer, writeOk) ==
    IF GuardFires(s, prev)
    THEN LET q == [s EXCEPT !.prompted = TRUE] IN
         CASE answer = "cancel" -> RevertSelection(q, prev)
           [] answer = "save" -> GuardSave(q, prev, writeOk)
           [] OTHER -> GuardDiscard(q)
    ELSE ShowCurrent(s)

\* QListWidget.setCurrentRow(row): currentItemChanged is emitted only when
\* the current item changes.
setCurrentRow(s, row, answer, writeOk) ==
    IF row = s.row THEN s
    ELSE on_selection_changed([s EXCEPT !.row = row], s.row, answer, writeOk)

-----------------------------------------------------------------------------
(* Operations *)

\* file_map after the loop of lines 126-130: a later path with the same
\* basename overwrites an earlier one.
BuildFileMap(selected) ==
    [n \in { selected[i].base : i \in 1..Len(selected) } |->
        LET last == CHOOSE i \in 1..Len(selected) :
                        /\ selected[i].base = n
                        /\ \A j \in 1..Len(selected) : selected[j].base = n => j <= i
        IN selected[last]]

\* The rows added to the list by the loop of lines 126-130: one per path.
BuildListItems(selected) == [i \in 1..Len(selected) |-> selected[i].base]

EmptyMap == [n \in {} |-> NoPath]

\* QListWidget.clear(): the selection model is cleared first, which emits
\* currentItemChanged(None, previous) when there was a current item; then
\* the rows are removed and the current index is reset without a signal.
list_widget_clear(s, answer, writeOk) ==
    LET t == IF s.row # -1
             THEN on_selection_changed([s EXCEPT !.row = -1], s.row, answer, writeOk)
             ELSE s
    IN [t EXCEPT !.items = <<>>, !.row = -1]

\* Lines 122-134 of open_images(): the dialog returned at least one path.
open_selected(s, selected, answer, writeOk) ==
    LET sorted == SortedInput[selected]
        cleared == list_widget_clear([s EXCEPT !.fmap = EmptyMap], answer, writeOk)
        filled == [cleared EXCEPT !.fmap = BuildFileMap(sorted),
                                  !.items = BuildListItems(sorted)]
    IN IF Len(filled.items) > 0
       THEN setCurrentRow(filled, 0, answer, writeOk)
       ELSE filled

\* A variant that resets the session when the dialog returns nothing.
open_images_ClearsOnEmpty(s, selected, answer, writeOk) ==
    IF Len(selected) = 0
    THEN [clear_image_and_caption(s) EXCEPT !.fmap = EmptyMap, !.items = <<>>, !.row = -1]
    ELSE open_selected(s, selected, answer, writeOk)

\* open_images() with the paths the file dialog returned: nothing happens
\* when it returned none (lines 119-120).
open_images(s, selected, answer, writeOk) ==
    IF Len(selected) = 0 THEN s
    ELSE open_selected(s, selected, answer, writeOk)

\* A variant without the lower limit.
Clamp_NoLowerLimit(row, step, count) ==
    IF row + step < count - 1 THEN row + step ELSE count - 1

\* max(0, min(current_row + step, count - 1))
Clamp(row, step, count) ==
    LET m == IF row + step < count - 1 THEN row + step ELSE count - 1
    IN IF m > 0 THEN m ELSE 0

\* _navigate(step)
navigate(s, step, answer, writeOk) ==
    IF Len(s.items) = 0 THEN s
    ELSE LET new_row == Clamp(s.row, step, Len(s.items)) IN
         IF new_row # s.row THEN setCurrentRow(s, new_row, answer, writeOk) ELSE s

\* A variant that tracks edits by comparing contents.
on_text_changed_ByContent(s, t) ==
    [s EXCEPT !.text = t, !.unsaved = (s.unsaved \/ t # s.text), !.edited = TRUE]

\* _on_text_changed() after the user changed the editor's text to t.
on_text_changed(s, t) == [s EXCEPT !.text = t, !.unsaved = TRUE, !.edited = TRUE]

-----------------------------------------------------------------------------
(* The state machine *)

NoEvent ==
    [op |-> "init", selected |-> <<>>, step |-> 0, target |-> -1,
     prompted |-> FALSE, answer |-> "none", wrote |-> FALSE, result |-> FALSE,
     loaded |-> FALSE]

\* The disk at start: one caption file holds a text, one is unreadable, the
\* others do not exist.
InitialFiles ==
    { [c \in CaptionPaths |-> IF c = CaptionOf[P1] THEN TextFile(Cat)
                              ELSE IF c = CaptionOf[P3] THEN BadFile ELSE NoFile] }

Init ==
    /\ file_map = EmptyMap
    /\ list_items = <<>>
    /\ current_row = -1
    /\ current_image_name = NoName
    /\ current_image_path = NoPath
    /\ caption_text = EmptyText
    /\ unsaved = FALSE
    /\ files \in InitialFiles
    /\ linesep = LF
    /\ edited = FALSE
    /\ synced = EmptyText
    /\ ev = NoEvent

\* The variables take the fields of the session t the handler returned.
Becomes(t) ==
    /\ file_map' = t.fmap
    /\ list_items' = t.items
    /\ current_row' = t.row
    /\ current_image_name' = t.name
    /\ current_image_path' = t.path
    /\ caption_text' = t.text
    /\ unsaved' = t.unsaved
    /\ files' = t.files
    /\ linesep' = linesep
    /\ edited' = t.edited
    /\ synced' = t.synced

\* The answers the user can give in an event: one of the three when the
\* question is asked, none otherwise.
AnswersIf(asked) == IF asked THEN Answers ELSE {"none"}

\* Whether write_text succeeds matters only when it is called.
WriteOutcomes(called) == IF called THEN BOOLEAN ELSE {TRUE}

\* The user opens images and the file dialog returns one of inputs.
OpenFrom(inputs) ==
    \E selected \in inputs :
    \E answer \in AnswersIf(Len(selected) > 0 /\ GuardFires(Session, current_row)) :
    \E writeOk \in WriteOutcomes(answer = "save") :
    \E t \in {open_images(Session, selected, answer, writeOk)} :
        /\ Becomes(t)
        /\ ev' = [NoEvent EXCEPT !.op = "open", !.selected = selected,
                                 !.prompted = t.prompted, !.answer = answer,
                                 !.wrote = t.wrote, !.loaded = t.loaded]

Open == OpenFrom(OpenInputs)

SelectIndex ==
    \E target \in 0..(Len(list_items) - 1) :
    \E answer \in AnswersIf(target # current_row /\ GuardFires(Session, current_row)) :
    \E writeOk \in WriteOutcomes(answer = "save") :
    \E t \in {setCurrentRow(Session, target, answer, writeOk)} :
        /\ Becomes(t)
        /\ ev' = [NoEvent EXCEPT !.op = "select", !.target = target,
                                 !.prompted = t.prompted, !.answer = answer,
                                 !.wrote = t.wrote, !.loaded = t.loaded]

Navigate ==
    \E step \in Steps :
    \E answer \in AnswersIf(/\ Len(list_items) > 0
                            /\ Clamp(current_row, step, Len(list_items)) # current_row
                            /\ GuardFires(Session, current_row)) :
    \E writeOk \in WriteOutcomes(answer = "save") :
    \E t \in {navigate(Session, step, answer, writeOk)} :
        /\ Becomes(t)
        /\ ev' = [NoEvent EXCEPT !.op = "navigate", !.step = step,
                                 !.prompted = t.prompted, !.answer = answer,
                                 !.wrote = t.wrote, !.loaded = t.loaded]

\* The user changes the editor's text to one of texts.
EditWith(texts) ==
    \E t \in texts :
        /\ Becomes(on_text_changed(Session, t))
        /\ ev' = [NoEvent EXCEPT !.op = "edit"]

EditBuffer == EditWith(Texts)

SaveCurrent ==
    \E writeOk \in WriteOutcomes(current_image_path # NoPath) :
    \E r \in {save_caption(Session, writeOk)} :
        /\ Becomes(r.s)
        /\ ev' = [NoEvent EXCEPT !.op = "save", !.wrote = r.s.wrote, !.result = r.ok]

Next == Open \/ SelectIndex \/ Navigate \/ EditBuffer \/ SaveCurrent

Spec == Init /\ [][Next]_vars

-----------------------------------------------------------------------------
(* The caption store on its own: one image at a time, texts with line     *)
(* ends, on either platform.                                               *)

LineA == <<"a", "\n", "b">>
LineB == <<"b", "\n">>

\* Texts with embedded and trailing line ends, and the empty text.
StoreTexts == {EmptyText, LineA, LineB}

\* The file dialog returns one path.
StoreInputs == { sel \in OpenInputs : Len(sel) = 1 }

InitStore ==
    /\ file_map = EmptyMap
    /\ list_items = <<>>
    /\ current_row = -1
    /\ current_image_name = NoName
    /\ current_image_path = NoPath
    /\ caption_text = EmptyText
    /\ unsaved = FALSE
    /\ files \in InitialFiles
    /\ linesep \in LineSeps
    /\ edited = FALSE
    /\ synced = EmptyText
    /\ ev = NoEvent

StoreOpen == OpenFrom(StoreInputs)

StoreEdit == EditWith(StoreTexts)

NextStore == StoreOpen \/ StoreEdit \/ SaveCurrent

SpecStore == InitStore /\ [][NextStore]_vars

-----------------------------------------------------------------------------
(* Vocabulary of the properties.  ev' is the event of the step. *)

\* Nothing of the session or of the disk changes in the step.
SessionUnchanged ==
    UNCHANGED <<file_map, list_items, current_row, current_image_name,
                current_image_path, caption_text, unsaved, files>>

\* The step is a SelectIndex or a Navigate.
NavigationStep == ev'.op \in {"select", "navigate"}

\* The row a navigation that asked the question was heading for.  Such a
\* Navigate moved, so its clamped target is current_row + step.
TargetRow == IF ev'.op = "select" THEN ev'.target ELSE current_row + ev'.step

\* After the step the session shows the entry of row r: the row is the
\* current one, the current image is that row's, the buffer holds its
\* on-disk caption ("" when the file is absent or unreadable), dirty is off.
ShowsRow(r) ==
    /\ current_row' = r
    /\ current_image_name' = list_items'[r + 1]
    /\ current_image_path' = file_map'[list_items'[r + 1]]
    /\ caption_text' = ReadCaption(files', current_image_path')
    /\ ~unsaved'

\* C1: a guarded SelectIndex or Navigate that the user answers with Cancel,
\* made while dirty with a current image, leaves the current row and image,
\* the buffer, the dirty flag (still true) and every caption file as they were.
C1_CancelKeepsState ==
    [][ (/\ NavigationStep
         /\ ev'.answer = "cancel"
         /\ unsaved
         /\ current_image_path # NoPath)
        => (SessionUnchanged /\ unsaved' /\ ev'.prompted) ]_vars

C1_Witness ==
    /\ ev.op \in {"select", "navigate"}
    /\ ev.prompted
    /\ ev.answer = "cancel"
    /\ unsaved
    /\ current_image_path # NoPath
    /\ Len(list_items) > 1

\* C2: when dirty, the answer is Save and the write fails, the navigation
\* is aborted: row, current image, buffer and files are unchanged, dirty
\* stays true, and the target's caption is not loaded.
C2_FailedSaveAborts ==
    [][ (/\ NavigationStep
         /\ ev'.answer = "save"
         /\ ~ev'.wrote
         /\ unsaved)
        => (SessionUnchanged /\ unsaved' /\ current_row' # TargetRow) ]_vars

C2_Witness ==
    /\ ev.op \in {"select", "navigate"}
    /\ ev.prompted
    /\ ev.answer = "save"
    /\ ~ev.wrote
    /\ unsaved
    /\ current_image_path # NoPath

\* C3: a dirty buffer of the current image is never replaced, and its dirty
\* flag never dropped, by an event other than the user's own edit, unless
\* that text was written to the image's caption file in the event or the
\* user answered Discard.
C3_NoSilentDataLoss ==
    [][ (/\ unsaved
         /\ current_image_path # NoPath
         /\ ev'.op # "edit"
         /\ (caption_text' # caption_text \/ ~unsaved'))
        => \/ ev'.wrote /\ files'[CaptionOf[current_image_path]] = TextFile(caption_text)
           \/ ev'.prompted /\ ev'.answer = "discard" ]_vars

C5_DiscardWritesNothing ==
    [][ (/\ NavigationStep
         /\ ev'.answer = "discard"
         /\ unsaved)
        => /\ files' = files
           /\ ~ev'.wrote
           /\ ShowsRow(TargetRow)
           /\ UNCHANGED <<file_map, list_items>> ]_vars

C5_Witness ==
    /\ ev.op \in {"select", "navigate"}
    /\ ev.prompted
    /\ ev.answer = "discard"
    /\ ~ev.wrote
    /\ ~unsaved
    /\ caption_text = Cat
    /\ current_image_path # NoPath

\* C6 as stated: dirty is false after every Open, true after every
\* EditBuffer, false after a successful SaveCurrent and after a navigation
\* resolved by Discard.
C6_DirtyAfterEveryEvent ==
    /\ ev.op = "open" => ~unsaved
    /\ ev.op = "edit" => unsaved
    /\ (ev.op = "save" /\ ev.result) => ~unsaved
    /\ (ev.op \in {"select", "navigate"} /\ ev.answer = "discard") => ~unsaved

\* C6, amended: dirty is false after every Open that yields at least one
\* path, and unchanged by an Open that yields none; it is true after every
\* EditBuffer, and false after a successful SaveCurrent and after a
\* navigation resolved by Discard.
C6_DirtyTransitions ==
    [][ /\ (ev'.op = "open" /\ Len(ev'.selected) > 0) => ~unsaved'
        /\ (ev'.op = "open" /\ Len(ev'.selected) = 0) => unsaved' = unsaved
        /\ ev'.op = "edit" => unsaved'
        /\ (ev'.op = "save" /\ ev'.result) => ~unsaved'
        /\ (NavigationStep /\ ev'.answer = "discard") => ~unsaved' ]_vars

\* An Open that yields no paths, made while dirty.
C6_Witness ==
    /\ ev.op = "open"
    /\ Len(ev.selected) = 0
    /\ unsaved
    /\ current_image_path # NoPath

\* C7: Navigate(step) heads for clamp(current_row + step, 0, count - 1).
\* When that is the current row (or the list is empty) nothing changes and
\* no question is asked, even if dirty; otherwise the step is the guarded
\* selection of that row.
C7_ClampedNavigate ==
    [][ ev'.op = "navigate" =>
        LET count == Len(list_items)
            moved == current_row + ev'.step
            target == IF moved < 0 THEN 0
                      ELSE IF moved > count - 1 THEN count - 1 ELSE moved
        IN IF count = 0 \/ target = current_row
           THEN SessionUnchanged /\ ~ev'.prompted /\ ~ev'.wrote
           ELSE \E writeOk \in BOOLEAN :
                   LET t == setCurrentRow(Session, target, ev'.answer, writeOk) IN
                   /\ Becomes(t)
                   /\ ev'.prompted = t.prompted
                   /\ ev'.wrote = t.wrote
                   /\ t.prompted = unsaved
                   /\ (t.row = target \/ (t.prompted /\ t.row = current_row)) ]_vars

\* Navigate(+1) on the last row, or Navigate(-1) on row 0, while dirty.
C7_Witness ==
    /\ ev.op = "navigate"
    /\ ~ev.prompted
    /\ unsaved
    /\ current_image_path # NoPath
    /\ Len(list_items) > 1
    /\ \/ ev.step = 1 /\ current_row = Len(list_items) - 1
       \/ ev.step = -1 /\ current_row = 0

\* The event was an Open that yielded at least one path.
OpenedSome == ev.op = "open" /\ Len(ev.selected) > 0

\* srt is the input inp in natural-sort order: the same paths, keys never
\* decreasing, and paths with equal keys in their order of inp.
IsNaturalOrderOf(srt, inp) ==
    /\ Len(srt) = Len(inp)
    /\ { srt[i] : i \in 1..Len(srt) } = { inp[i] : i \in 1..Len(inp) }
    /\ \A i, j \in 1..Len(srt) :
          i < j =>
             /\ ~KeyLess(alphanum_key(srt[j]), alphanum_key(srt[i]))
             /\ alphanum_key(srt[i]) = alphanum_key(srt[j]) =>
                   \E a, b \in 1..Len(inp) : a < b /\ inp[a] = srt[i] /\ inp[b] = srt[j]

C9_OneRowPerBasename ==
    OpenedSome =>
        /\ Len(list_items) = Cardinality({ ev.selected[i].base : i \in 1..Len(ev.selected) })
        /\ \A i, j \in 1..Len(list_items) : i # j => list_items[i] # list_items[j]
        /\ \A i \in 1..Len(list_items) :
              LET srt == SortedInput[ev.selected]
                  same == { k \in 1..Len(srt) : srt[k].base = list_items[i] }
              IN file_map[list_items[i]] = srt[CHOOSE k \in same : \A m \in same : m <= k]

\* C10 as stated: after an Open that yields no paths the session is in the
\* Clear state.
C10_EmptyOpenClears ==
    (ev.op = "open" /\ Len(ev.selected) = 0) =>
        /\ list_items = <<>>
        /\ DOMAIN file_map = {}
        /\ current_row = -1
        /\ current_image_path = NoPath
        /\ caption_text = EmptyText
        /\ ~unsaved

\* C10, amended: an Open that yields no paths changes nothing: entries,
\* current row and image, buffer, dirty flag and files are as before, no
\* question is asked and nothing is written.
C10_EmptyOpenChangesNothing ==
    [][ (ev'.op = "open" /\ Len(ev'.selected) = 0)
        => (SessionUnchanged /\ ~ev'.prompted /\ ~ev'.wrote) ]_vars

\* An Open that yields no paths with images loaded and the buffer dirty.
C10_Witness ==
    /\ ev.op = "open"
    /\ Len(ev.selected) = 0
    /\ Len(list_items) > 1
    /\ current_row = 1
    /\ caption_text = Cat
    /\ unsaved

\* C11: between events the current image is none exactly when the list is
\* empty; otherwise the current row is a row of the list, the current image
\* name is that row's name and the current image path is the path the
\* current file map holds for it.
C11_SelectionValid ==
    /\ (list_items = <<>>) <=> (current_image_path = NoPath)
    /\ (list_items = <<>>) <=> (current_image_name = NoName)
    /\ (list_items = <<>>) <=> (current_row = -1)
    /\ list_items # <<>> =>
          /\ current_row \in 0..(Len(list_items) - 1)
          /\ current_image_name = list_items[current_row + 1]
          /\ current_image_name \in DOMAIN file_map
          /\ current_image_path = file_map[current_image_name]

\* A second Open over a dirty session, answered Cancel: the current image
\* is the new list's, not the previous Open's.
C11_Witness ==
    /\ ev.op = "open"
    /\ ev.prompted
    /\ ev.answer = "cancel"
    /\ ev.selected = <<P3>>
    /\ current_image_path = P3
    /\ current_row = 0

\* C12: whenever the list is empty there is no current image and the buffer
\* is empty.
C12_EmptySession ==
    list_items = <<>> =>
        /\ current_row = -1
        /\ current_image_path = NoPath
        /\ caption_text = EmptyText

\* C13 as stated: after a successful SaveCurrent the caption file of the
\* current image contains the buffer verbatim.
C13_FileHoldsBufferVerbatim ==
    (ev.op = "save" /\ ev.wrote)
        => files[CaptionOf[current_image_path]] = TextFile(caption_text)

\* C13: SaveCurrent with a current image reports success exactly when the
\* write happened; then the image's caption file holds the buffer as a
\* text-mode write stores it (each "\n" as os.linesep, so verbatim where
\* that is "\n"), it reads back as the buffer, dirty is false and nothing
\* else changes.  When the write fails nothing changes and dirty is not
\* cleared.
C13_SaveCurrent ==
    [][ (ev'.op = "save" /\ current_image_path # NoPath) =>
        /\ ev'.result = ev'.wrote
        /\ IF ev'.result
           THEN /\ files' = [files EXCEPT ![CaptionOf[current_image_path]] =
                                             TextFile(EncodeText(caption_text, linesep))]
                /\ linesep = LF => files'[CaptionOf[current_image_path]].text = caption_text
                /\ ReadCaption(files', current_image_path) = caption_text
                /\ ~unsaved'
                /\ UNCHANGED <<file_map, list_items, current_row, current_image_name,
                               current_image_path, caption_text>>
           ELSE SessionUnchanged ]_vars

\* A successful SaveCurrent of a text with a line end where os.linesep is
\* "\r\n".
C13_Witness ==
    /\ ev.op = "save"
    /\ ev.result
    /\ ev.wrote
    /\ ~unsaved
    /\ linesep = CRLF
    /\ caption_text = LineB
    /\ current_image_path = P1
    /\ files[CaptionOf[P1]] = TextFile(<<"b", "\r", "\n">>)

\* C14: with an empty list, SelectIndex, Navigate and SaveCurrent change
\* nothing and write no file, and SaveCurrent reports failure.
C14_EmptySessionNoOps ==
    [][ (list_items = <<>> /\ ev'.op \in {"select", "navigate", "save"}) =>
        /\ SessionUnchanged
        /\ ~ev'.wrote
        /\ ~ev'.prompted
        /\ ~ev'.loaded
        /\ ~ev'.result ]_vars

\* SaveCurrent or Navigate before the first Open, with text typed.
C14_Witness ==
    /\ list_items = <<>>
    /\ ev.op \in {"navigate", "save"}
    /\ unsaved
    /\ caption_text = Cat

\* C15: natural_sort returns the input's paths with keys never decreasing
\* and equal keys in input order (a2 before A10, a path before a later one
\* with the same basename), and sorting a sorted list changes nothing.
C15_NaturalSort ==
    OpenedSome =>
        LET srt == natural_sort(ev.selected) IN
        /\ IsNaturalOrderOf(srt, ev.selected)
        /\ natural_sort(srt) = srt
        /\ ev.selected = <<P3, P1>> => srt = <<P1, P3>>
        /\ ev.selected = <<P2, P1>> => srt = <<P2, P1>>
        /\ ev.selected = <<P1, P2>> => srt = <<P1, P2>>
        /\ ev.selected = <<P3, P2, P1>> => srt = <<P2, P1, P3>>

\* The input holds two paths with equal keys, the later-named directory first.
C15_Witness ==
    /\ ev.op = "open"
    /\ ev.selected = <<P2, P1>>
    /\ list_items = <<P2.base, P1.base>>

\* C16: a successful save of the buffer followed by a load of the same
\* image (opening it again) puts exactly the saved text into the buffer, for
\* the empty text and for texts with embedded or trailing line ends, on
\* either platform; and right after the save the file reads back as the
\* buffer.
C16_RoundTrip ==
    [][ /\ (ev'.op = "save" /\ ev'.wrote)
            => ReadCaption(files', current_image_path) = caption_text
        /\ (/\ ev.op = "save"
            /\ ev.wrote
            /\ ev'.op = "open"
            /\ ev'.selected = <<current_image_path>>)
            => (ev'.loaded /\ caption_text' = caption_text) ]_vars

\* A text with a line end was saved where os.linesep is "\r\n" and loaded
\* again.
C16_Witness ==
    /\ ev.op = "open"
    /\ ev.loaded
    /\ linesep = CRLF
    /\ caption_text = LineA
    /\ current_image_path = P2
    /\ files[CaptionOf[P2]] = TextFile(<<"a", "\r", "\n", "b">>)

\* C17: dirty is true exactly when the user edited since the last load or
\* successful save, and a clean buffer of a current image is the text last
\* loaded from or saved to its caption file.
C17_DirtyMeaning ==
    /\ unsaved = edited
    /\ (current_image_path # NoPath /\ ~unsaved) => caption_text = synced
    /\ ev.loaded => ~unsaved

\* A caption was loaded that differs from the text shown before.
C17_Witness ==
    /\ ev.op \in {"select", "navigate"}
    /\ ev.loaded
    /\ ~ev.prompted
    /\ ~unsaved
    /\ caption_text = Cat
    /\ synced = Cat
    /\ Len(list_items) > 1

\* C18: a SelectIndex of another row asks the question exactly when dirty
\* with a current image.  Unless it is aborted (Cancel, or Save with a
\* failed write) it ends with the target row shown: the buffer is the
\* target's on-disk caption, "" when the file is absent or unreadable, and
\* dirty is false.
C18_GuardAndCompletion ==
    [][ (ev'.op = "select" /\ ev'.target # current_row) =>
        LET aborted == /\ ev'.prompted
                       /\ \/ ev'.answer = "cancel"
                          \/ ev'.answer = "save" /\ ~ev'.wrote
        IN /\ ev'.prompted = (unsaved /\ current_image_path # NoPath)
           /\ ~ev'.prompted => ev'.answer = "none"
           /\ IF aborted THEN SessionUnchanged
              ELSE /\ ShowsRow(ev'.target)
                   /\ ev'.loaded
                   /\ files'[CaptionOf[current_image_path']].kind # "text"
                         => caption_text' = EmptyText ]_vars

\* A clean SelectIndex of the image whose caption file is unreadable.
C18_Witness ==
    /\ ev.op = "select"
    /\ ~ev.prompted
    /\ ev.loaded
    /\ current_image_path = P3
    /\ current_row = ev.target
    /\ files[CaptionOf[P3]] = BadFile
    /\ caption_text = EmptyText
    /\ ~unsaved

\* C19: a caption file changes only in a step in which write_text
\* succeeded, which is a SaveCurrent or the Save answer to the question, and
\* then only the caption file of the image current before the step changes;
\* every other step (EditBuffer, loading, an Open or a navigation without
\* the question or answered Discard or Cancel) leaves all files as they were.
C19_WritesOnlyOnSave ==
    [][ /\ files' # files =>
           /\ ev'.wrote
           /\ ev'.op = "save" \/ (ev'.prompted /\ ev'.answer = "save")
           /\ current_image_path # NoPath
           /\ \A c \in CaptionPaths :
                 c # CaptionOf[current_image_path] => files'[c] = files[c]
        /\ ev'.wrote => (ev'.op = "save" \/ (ev'.prompted /\ ev'.answer = "save"))
        /\ (\/ ev'.op = "edit"
            \/ ev'.op # "save" /\ ev'.answer \in {"none", "discard", "cancel"})
           => files' = files ]_vars

\* A navigation answered Discard whose buffer differed from the disk.
C19_Witness ==
    /\ ev.op \in {"select", "navigate"}
    /\ ev.answer = "discard"
    /\ ev.loaded
    /\ files[CaptionOf[P1]] = TextFile(Cat)
    /\ files[CaptionOf[P2]] = NoFile
    /\ current_image_path = P2

\* C20: two distinct image paths of one Open have distinct caption files.
C20_DistinctCaptionFiles ==
    \A i, j \in 1..Len(ev.selected) :
        ev.selected[i] # ev.selected[j]
            => with_suffix_txt(ev.selected[i]) # with_suffix_txt(ev.selected[j])

====
